---------------------------- MODULE Spec2Model ----------------------------
(***************************************************************************)
(* Model of the agent core of bklynate/agent-from-scratch:                 *)
(*   - the Memory Component (src/src/memory.ts): addMetadata,              *)
(*     removeMetadata, getDb, addMessages, getMessages, saveToolResponse;  *)
(*   - the Invocation Component (src/unnamed/part_000): runLLM.            *)
(*                                                                         *)
(* Every async function is cut at its awaits.  A call of addMessages is    *)
(*   StartAddMessages   getDb() is entered, db.read() is pending           *)
(*   ReadOk / ReadFail  the file read of db.read() completes               *)
(*   EnrichAndPush      lines 87-89 up to the await inside db.write():     *)
(*                      enrich, push, serialise the document               *)
(*   WriteOk/WriteFail  the file replace of db.write() completes           *)
(* getMessages is StartGetMessages, ReadOk / ReadFail, ReturnMessages.     *)
(* runLLM is StartRunLLM (request built and sent), then the endpoint's     *)
(* answer: EndpointReply or EndpointError.                                 *)
(***************************************************************************)
EXTENDS Integers, Sequences, FiniteSets, TLC

(***************************************************************************)
(* Bounds of the model.                                                    *)
(***************************************************************************)
MaxAppends == 2      \* addMessages / saveToolResponse calls started in a run
MaxBatch == 2        \* messages in one addMessages batch
MaxClock == 1        \* ticks of the wall clock
MaxTools == 2        \* tool descriptors passed to one runLLM call
MaxChoices == 2      \* completion choices in one endpoint reply

Callers == {1, 2}    \* the callers that may overlap in ConcSpec
\* The single caller of serialized use (Spec, LoopSpec).
MainCaller == CHOOSE c \in Callers : \A d \in Callers : c <= d

(***************************************************************************)
(* Values.  A JavaScript object is a function from its own property names  *)
(* to values; Undefined is the value `undefined`.                          *)
(***************************************************************************)
Undefined == "<undefined>"

\* m.f as JavaScript reads it: undefined when m has no own property f.
Get(m, f) == IF f \in DOMAIN m THEN m[f] ELSE Undefined

UserMsg == [role |-> "user", content |-> "hi"]
AssistantMsg == [role |-> "assistant", content |-> "calling",
                 tool_calls |-> <<[id |-> "call_42", name |-> "weather"]>>]

\* The AIMessage values given to addMessages.
Messages == {UserMsg, AssistantMsg}

ToolCallIds == {"call_42", "call_x"}
ToolResponses == {"ok", Undefined}

SeqsUpTo(S, n) == UNION {[1..k -> S] : k \in 0..n}

\* Every batch of at most MaxBatch messages.
Batches == SeqsUpTo(Messages, MaxBatch)

\* The batches that repeat one message: all that overlapping calls need.
UniformBatches == {[i \in 1..k |-> m] : k \in 0..MaxBatch, m \in Messages}

\* The batches of one message, as the agent loop appends them.
SingleBatches == {<<m>> : m \in Messages}

MetadataFields == {"id", "createdAt"}

(***************************************************************************)
(* memory.ts: the pure functions.                                          *)
(***************************************************************************)
\* addMetadata with the results of uuidv4() and new Date().toISOString()
\* passed in: a new object, the spread of message with id and createdAt set.
addMetadata(message, id, createdAt) ==
    [f \in (DOMAIN message) \cup MetadataFields |->
        IF f = "id" THEN id
        ELSE IF f = "createdAt" THEN createdAt
        ELSE message[f]]

\* Mutant of removeMetadata: only id is destructured away.
RemoveIdOnly(message) ==
    [f \in (DOMAIN message) \ {"id"} |-> message[f]]

\* removeMetadata: the rest of the destructuring {id, createdAt, ...rest}.
removeMetadata(message) ==
    [f \in (DOMAIN message) \ MetadataFields |-> message[f]]

\* Mutant of MapAddMetadata: uuidv4 is called once for the whole batch.
OneIdPerBatch(messages, firstId, clock) ==
    [i \in 1..Len(messages) |-> addMetadata(messages[i], firstId, clock)]

\* messages.map(addMetadata): uuidv4 is called once per message (ids
\* firstId, firstId + 1, ...), new Date() reads the clock.
MapAddMetadata(messages, firstId, clock) ==
    [i \in 1..Len(messages) |-> addMetadata(messages[i], firstId + i - 1, clock)]

\* Mutant of MapRemoveMetadata: the stored records are returned as they are.
KeepMetadata(stored) == stored

\* messages.map(removeMetadata)
MapRemoveMetadata(stored) ==
    [i \in 1..Len(stored) |-> removeMetadata(stored[i])]

\* Mutant of Push: unshift, the new messages go in front.
Unshift(data, messagesWithMetadata) == messagesWithMetadata \o data

\* Mutant of Push: the spread is forgotten, only the first message is pushed.
PushFirst(data, messagesWithMetadata) ==
    IF Len(messagesWithMetadata) = 0 THEN data
    ELSE data \o <<messagesWithMetadata[1]>>

\* db.data.messages.push(...messagesWithMetadata)
Push(data, messagesWithMetadata) == data \o messagesWithMetadata

\* The properties of m that hold undefined; of the values here only the
\* content of a tool message (toolResponse: string | any) can.
UndefinedProps(m) == {g \in (DOMAIN m) \cap {"content"} : m[g] = Undefined}

\* JSON.stringify of one object: properties whose value is undefined are
\* left out.
StringifyObject(m) == [f \in (DOMAIN m) \ UndefinedProps(m) |-> m[f]]

\* The document lowdb writes: JSON.stringify({messages: [...]}).
Stringify(data) == [i \in 1..Len(data) |-> StringifyObject(data[i])]

\* JSON.parse of a written document gives the objects the text describes.
Parse(text) == text

\* Mutant of ToolMessage: the two arguments change places.
ToolMessageSwapped(toolCallId, toolResponse) ==
    [role |-> "tool", content |-> toolCallId, tool_call_id |-> toolResponse]

\* The message saveToolResponse builds and hands to addMessages.
ToolMessage(toolCallId, toolResponse) ==
    [role |-> "tool", content |-> toolResponse, tool_call_id |-> toolCallId]

(***************************************************************************)
(* State.                                                                  *)
(***************************************************************************)
VARIABLES
    file,         \* db.json: [exists, text], text the written document
    defaultData,  \* the messages array of the module-level defaultData
    pc,           \* per caller: where its current call stands
    op,           \* per caller: the operation it is in
    args,         \* per caller: the arguments of the call
    db,           \* per caller: the Low instance getDb returned
    pending,      \* per caller: the document handed to the file writer
    result,       \* per caller: what the call returned or threw
    llm,          \* per caller: the endpoint traffic of its runLLM call
    nextId,       \* uuidv4: the next fresh identifier
    now,          \* the wall clock
    calls,        \* addMessages calls started so far
    log,          \* history: one entry per enriched batch: the length of
                  \* the loaded history, the ids given, how the write ended
    appended,     \* history: the inputs of the successful addMessages calls
    overlapped    \* history: two addMessages calls were in flight together

vars == <<file, defaultData, pc, op, args, db, pending, result, llm, nextId,
          now, calls, log, appended, overlapped>>

NoArgs == [messages |-> <<>>]
NoDb == [ref |-> "none", data |-> <<>>]
NoPending == [text |-> <<>>, entry |-> 0]
NoResult == [status |-> "none", value |-> <<>>]

\* A resolved call with its value, a rejected call with what was thrown.
Resolved(value) == [status |-> "ok", value |-> value]
Rejected(error) == [status |-> "error", value |-> error]
NoLLM == [requests |-> <<>>, choices |-> <<>>]

Init ==
    /\ file = [exists |-> FALSE, text |-> <<>>]
    /\ defaultData = <<>>
    /\ pc = [c \in Callers |-> "idle"]
    /\ op = [c \in Callers |-> "none"]
    /\ args = [c \in Callers |-> NoArgs]
    /\ db = [c \in Callers |-> NoDb]
    /\ pending = [c \in Callers |-> NoPending]
    /\ result = [c \in Callers |-> NoResult]
    /\ llm = [c \in Callers |-> NoLLM]
    /\ nextId = 1
    /\ now = 0
    /\ calls = 0
    /\ log = <<>>
    /\ appended = <<>>
    /\ overlapped = FALSE

\* Caller c has no call in progress.
Free(c) == pc[c] \in {"idle", "done"}

Appending(c) == op[c] \in {"add", "tool"} /\ ~Free(c)

\* db.data.messages of caller c's Low instance: the parsed document, or
\* (no file at read time) the shared defaultData object itself.
DbData(c) == IF db[c].ref = "default" THEN defaultData ELSE db[c].data

(***************************************************************************)
(* getDb: JSONFilePreset('db.json', defaultData).                          *)
(***************************************************************************)
Begin(c, o, a) ==
    /\ Free(c)
    /\ pc' = [pc EXCEPT ![c] = "reading"]
    /\ op' = [op EXCEPT ![c] = o]
    /\ args' = [args EXCEPT ![c] = a]
    /\ db' = [db EXCEPT ![c] = NoDb]
    /\ pending' = [pending EXCEPT ![c] = NoPending]
    /\ result' = [result EXCEPT ![c] = NoResult]
    /\ llm' = [llm EXCEPT ![c] = NoLLM]

\* Mutant of ReadData: db.read() is not awaited, db.data starts empty.
ReadNothing(f) == [ref |-> "own", data |-> <<>>]

\* What db.read() leaves in db.data: the parsed file, or, when there is no
\* file, the defaultData object the Low instance was constructed with
\* (lowdb's Low keeps data = defaultData unless the adapter reads a document).
ReadData(f) ==
    IF f.exists THEN [ref |-> "own", data |-> Parse(f.text)]
    ELSE [ref |-> "default", data |-> <<>>]

ReadOk(c) ==
    /\ pc[c] = "reading"
    /\ pc' = [pc EXCEPT ![c] = "loaded"]
    /\ db' = [db EXCEPT ![c] = ReadData(file)]
    /\ UNCHANGED <<llm, file, defaultData, op, args, pending, result, nextId, now,
                   calls, log, appended, overlapped>>

\* The read throws (disk failure, corrupt document): the call rejects.
ReadFail(c) ==
    /\ pc[c] = "reading"
    /\ pc' = [pc EXCEPT ![c] = "done"]
    /\ result' = [result EXCEPT ![c] = Rejected("read failed")]
    /\ UNCHANGED <<llm, file, defaultData, op, args, db, pending, nextId, now,
                   calls, log, appended, overlapped>>

(***************************************************************************)
(* addMessages and saveToolResponse.                                       *)
(***************************************************************************)
BeginAppend(c, o, a) ==
    /\ Begin(c, o, a)
    /\ calls' = calls + 1
    /\ overlapped' = (overlapped \/ \E d \in Callers \ {c} : Appending(d))
    /\ UNCHANGED <<file, defaultData, nextId, now, log, appended>>

StartAddMessages(c, inputs) ==
    /\ calls < MaxAppends
    /\ \E messages \in inputs :
        BeginAppend(c, "add", [messages |-> messages])

StartSaveToolResponse(c) ==
    /\ calls < MaxAppends
    /\ \E toolCallId \in ToolCallIds, toolResponse \in ToolResponses :
        BeginAppend(c, "tool",
                    [messages |-> <<ToolMessage(toolCallId, toolResponse)>>,
                     toolCallId |-> toolCallId,
                     toolResponse |-> toolResponse])

\* Lines 87-89 up to the await in db.write(): the batch is enriched, pushed
\* onto db.data.messages and the whole document is serialised for the writer.
EnrichAndPush(c) ==
    /\ pc[c] = "loaded"
    /\ op[c] \in {"add", "tool"}
    /\ LET messagesWithMetadata ==
               MapAddMetadata(args[c].messages, nextId, now)
           data == Push(DbData(c), messagesWithMetadata)
       IN  /\ IF db[c].ref = "default"
              THEN /\ defaultData' = data
                   /\ db' = db
              ELSE /\ db' = [db EXCEPT ![c].data = data]
                   /\ defaultData' = defaultData
           /\ pending' = [pending EXCEPT ![c] =
                             [text |-> Stringify(data), entry |-> Len(log) + 1]]
           /\ log' = log \o <<[base |-> Len(DbData(c)),
                              lo |-> nextId,
                              hi |-> nextId + Len(args[c].messages) - 1,
                              status |-> "pending"]>>
    /\ nextId' = nextId + Len(args[c].messages)
    /\ pc' = [pc EXCEPT ![c] = "writing"]
    /\ UNCHANGED <<llm, file, op, args, result, now, calls, appended, overlapped>>

\* The writer replaces db.json by the serialised document; the call resolves
\* and its Low instance is dropped.
WriteOk(c) ==
    /\ pc[c] = "writing"
    /\ file' = [exists |-> TRUE, text |-> pending[c].text]
    /\ pc' = [pc EXCEPT ![c] = "done"]
    /\ result' = [result EXCEPT ![c] = Resolved(<<>>)]
    /\ log' = [log EXCEPT ![pending[c].entry].status = "ok"]
    /\ appended' = appended \o args[c].messages
    /\ db' = [db EXCEPT ![c] = NoDb]
    /\ pending' = [pending EXCEPT ![c] = NoPending]
    /\ UNCHANGED <<llm, defaultData, op, args, nextId, now, calls, overlapped>>

\* The write throws and db.json is left as it was; the call rejects.
WriteFail(c) ==
    /\ pc[c] = "writing"
    /\ pc' = [pc EXCEPT ![c] = "done"]
    /\ result' = [result EXCEPT ![c] = Rejected("write failed")]
    /\ log' = [log EXCEPT ![pending[c].entry].status = "failed"]
    /\ db' = [db EXCEPT ![c] = NoDb]
    /\ pending' = [pending EXCEPT ![c] = NoPending]
    /\ UNCHANGED <<llm, file, defaultData, op, args, nextId, now, calls, appended,
                   overlapped>>

(***************************************************************************)
(* getMessages.                                                            *)
(***************************************************************************)
StartGetMessages(c) ==
    /\ Begin(c, "get", NoArgs)
    /\ UNCHANGED <<file, defaultData, nextId, now, calls, log, appended,
                   overlapped>>

ReturnMessages(c) ==
    /\ pc[c] = "loaded"
    /\ op[c] = "get"
    /\ pc' = [pc EXCEPT ![c] = "done"]
    /\ result' = [result EXCEPT ![c] = Resolved(MapRemoveMetadata(DbData(c)))]
    /\ db' = [db EXCEPT ![c] = NoDb]
    /\ UNCHANGED <<llm, file, defaultData, op, args, pending, nextId, now, calls,
                   log, appended, overlapped>>

\* The wall clock advances.  Only EnrichAndPush reads it, so it is advanced
\* only when a call is about to read it.
Tick ==
    /\ now < MaxClock
    /\ \E c \in Callers : pc[c] = "loaded" /\ Appending(c)
    /\ now' = now + 1
    /\ UNCHANGED <<llm, file, defaultData, pc, op, args, db, pending, result,
                   nextId, calls, log, appended, overlapped>>

(***************************************************************************)
(* runLLM.                                                                 *)
(***************************************************************************)
models == <<"gpt-4o-mini", "mistral-nemo:latest", "nemotron-mini:latest",
            "codellama:13b", "llama3.1:latest">>

\* The parameter defaults: models[1] (zero-based) and 0.1, in tenths.
DefaultModel == models[2]
DefaultTemperature == 1

\* The imported system prompt.
systemPrompt == "<systemPrompt>"

ToolDescriptors == {[name |-> "weather", parameters |-> "zod:city"],
                    [name |-> "joke", parameters |-> "zod:none"]}

\* The JSON schema zodFunction derives from a zod object schema.
zodToJsonSchema(parameters) ==
    CASE parameters = "zod:city" -> "json:city"
      [] parameters = "zod:none" -> "json:none"

\* zodFunction(tool): the endpoint's tool definition.
zodFunction(tool) ==
    [type |-> "function",
     function |-> [name |-> tool.name,
                   parameters |-> zodToJsonSchema(tool.parameters),
                   strict |-> TRUE]]

\* A destructured parameter: its default when the property is not given.
Param(a, f, default) == IF f \in DOMAIN a THEN a[f] ELSE default

\* Mutant of FormattedTools: the definitions come out in reverse order.
FormattedToolsReversed(tools) ==
    [i \in 1..Len(tools) |-> zodFunction(tools[Len(tools) + 1 - i])]

\* tools?.map((tool) => zodFunction(tool))
FormattedTools(tools) == [i \in 1..Len(tools) |-> zodFunction(tools[i])]

\* Mutant of RequestMessages: the system prompt is put last.
SystemPromptLast(messages) ==
    messages \o <<[role |-> "system", content |-> systemPrompt]>>

\* The messages of the request: the system prompt, then the given ones.
RequestMessages(messages) ==
    <<[role |-> "system", content |-> systemPrompt]>> \o messages

\* The argument of localai.chat.completions.create.
RunLLMRequest(a) ==
    [model |-> Param(a, "model", DefaultModel),
     temperature |-> Param(a, "temperature", DefaultTemperature),
     messages |-> RequestMessages(a.messages),
     tools |-> FormattedTools(Param(a, "tools", <<>>)),
     tool_choice |-> "auto",
     parallel_tool_calls |-> FALSE]

\* The optional properties a caller may give runLLM.
ModelOptions == {<<>>, [model |-> models[1]]}
TemperatureOptions == {<<>>, [temperature |-> 7]}
ToolsOptions ==
    {<<>>} \cup {[tools |-> t] : t \in SeqsUpTo(ToolDescriptors, MaxTools)}

\* The reply messages of the endpoint.
TextReply == [role |-> "assistant", content |-> "hello"]
Replies == {[message |-> TextReply], [message |-> AssistantMsg]}

\* The caller passes the history it fetched with getMessages.
StartRunLLM(c) ==
    /\ pc[c] = "done"
    /\ op[c] = "get"
    /\ result[c].status = "ok"
    /\ \E m \in ModelOptions, t \in TemperatureOptions, ts \in ToolsOptions :
        LET a == [messages |-> result[c].value] @@ m @@ t @@ ts
        IN  /\ args' = [args EXCEPT ![c] = a]
            /\ llm' = [llm EXCEPT ![c] =
                          [requests |-> <<RunLLMRequest(a)>>, choices |-> <<>>]]
    /\ pc' = [pc EXCEPT ![c] = "calling"]
    /\ op' = [op EXCEPT ![c] = "llm"]
    /\ result' = [result EXCEPT ![c] = NoResult]
    /\ UNCHANGED <<file, defaultData, db, pending, nextId, now, calls, log,
                   appended, overlapped>>

\* The endpoint answers; runLLM returns response.choices[0].message, which
\* throws a TypeError when there is no choice.
EndpointReply(c) ==
    /\ pc[c] = "calling"
    /\ \E choices \in SeqsUpTo(Replies, MaxChoices) :
        /\ llm' = [llm EXCEPT ![c].choices = choices]
        /\ result' = [result EXCEPT ![c] =
                         IF Len(choices) = 0
                         THEN Rejected("TypeError")
                         ELSE Resolved(choices[1].message)]
    /\ pc' = [pc EXCEPT ![c] = "done"]
    /\ UNCHANGED <<file, defaultData, op, args, db, pending, nextId, now,
                   calls, log, appended, overlapped>>

\* The endpoint rejects the request: runLLM rejects, nothing is retried.
EndpointError(c) ==
    /\ pc[c] = "calling"
    /\ result' = [result EXCEPT ![c] = Rejected("endpoint error")]
    /\ pc' = [pc EXCEPT ![c] = "done"]
    /\ UNCHANGED <<file, defaultData, op, args, db, pending, llm, nextId, now,
                   calls, log, appended, overlapped>>

(***************************************************************************)
(* Specifications.                                                         *)
(***************************************************************************)
Step(c) ==
    \/ ReadOk(c)
    \/ ReadFail(c)
    \/ EnrichAndPush(c)
    \/ WriteOk(c)
    \/ WriteFail(c)
    \/ ReturnMessages(c)

\* Serialized use: one caller, each call runs to completion before the next.
Next ==
    \/ StartAddMessages(MainCaller, Batches)
    \/ StartSaveToolResponse(MainCaller)
    \/ StartGetMessages(MainCaller)
    \/ Step(MainCaller)
    \/ Tick

Spec == Init /\ [][Next]_vars

\* Overlapping use: the callers' calls interleave at their awaits.  The
\* clock stands still: timestamps play no part in how calls interleave.
ConcNext ==
    \E c \in Callers :
        \/ StartAddMessages(c, UniformBatches)
        \/ StartGetMessages(c)
        \/ Step(c)

\* Overlapping use starts without db.json, or with the db.json an earlier
\* run left after one successful addMessages([UserMsg]).
ConcInit ==
    \/ Init
    \/ /\ file = [exists |-> TRUE,
                  text |-> Stringify(MapAddMetadata(<<UserMsg>>, 1, 0))]
       /\ defaultData = <<>>
       /\ pc = [c \in Callers |-> "idle"]
       /\ op = [c \in Callers |-> "none"]
       /\ args = [c \in Callers |-> NoArgs]
       /\ db = [c \in Callers |-> NoDb]
       /\ pending = [c \in Callers |-> NoPending]
       /\ result = [c \in Callers |-> NoResult]
       /\ llm = [c \in Callers |-> NoLLM]
       /\ nextId = 2
       /\ now = 0
       /\ calls = 0
       /\ log = <<[base |-> 0, lo |-> 1, hi |-> 1, status |-> "ok"]>>
       /\ appended = <<UserMsg>>
       /\ overlapped = FALSE

ConcSpec == ConcInit /\ [][ConcNext]_vars

\* The agent loop: one caller appends single turns and tool responses,
\* fetches the history and passes it to runLLM.
LoopNext ==
    \/ StartAddMessages(MainCaller, SingleBatches)
    \/ StartSaveToolResponse(MainCaller)
    \/ StartGetMessages(MainCaller)
    \/ Step(MainCaller)
    \/ StartRunLLM(MainCaller)
    \/ EndpointReply(MainCaller)
    \/ EndpointError(MainCaller)

LoopSpec == Init /\ [][LoopNext]_vars

(***************************************************************************)
(* Properties.                                                             *)
(***************************************************************************)
IdsOf(stored) == {stored[i].id : i \in 1..Len(stored)}

IsPrefix(a, b) == Len(a) <= Len(b) /\ \A i \in 1..Len(a) : a[i] = b[i]

\* The same defined properties with the same values.
SameMessage(a, b) ==
    /\ (DOMAIN a) \ UndefinedProps(a) = (DOMAIN b) \ UndefinedProps(b)
    /\ \A f \in (DOMAIN a) \ UndefinedProps(a) : a[f] = b[f]

\* a is a prefix of b, record by record.
SamePrefix(a, b) ==
    Len(a) <= Len(b) /\ \A i \in 1..Len(a) : SameMessage(a[i], b[i])

SameMessages(as, bs) ==
    /\ Len(as) = Len(bs)
    /\ \A i \in 1..Len(as) : SameMessage(as[i], bs[i])

\* The history a Memory operation loads: db.json, or defaultData without it.
Loaded == IF file.exists THEN file.text ELSE defaultData

GetReturned(c) == pc[c] = "done" /\ op[c] = "get" /\ result[c].status = "ok"

NoFailedAppend == \A k \in 1..Len(log) : log[k].status = "ok"

\* C1: under serialized use with every addMessages call so far successful,
\* getMessages returns the concatenation of the appended batches, in call
\* order and input order, without id or createdAt (empty when nothing was
\* appended; an empty batch adds nothing).
C1_GetReturnsAppended ==
    \A c \in Callers :
        (GetReturned(c) /\ NoFailedAppend) =>
            /\ SameMessages(result[c].value, appended)
            /\ \A i \in 1..Len(result[c].value) :
                   (DOMAIN result[c].value[i]) \cap MetadataFields = {}

C1_Witness ==
    /\ GetReturned(MainCaller)
    /\ Len(log) = 2
    /\ NoFailedAppend
    /\ Len(result[MainCaller].value) = 3
    /\ result[MainCaller].value[1] # result[MainCaller].value[2]

\* C2: removeMetadata(addMetadata(m)) = m, and addMetadata adds exactly id
\* and createdAt, keeping every property of m: checked on every batch the
\* moment addMessages has enriched and pushed it.
C2_RoundTrip ==
    \A c \in Callers :
        pc[c] = "writing" =>
            LET data == DbData(c)
                n == Len(args[c].messages)
                k == Len(data) - n
            IN  \A i \in 1..n :
                    LET m == args[c].messages[i]
                        e == data[k + i]
                    IN  /\ removeMetadata(e) = m
                        /\ DOMAIN e = (DOMAIN m) \cup MetadataFields
                        /\ \A f \in DOMAIN m : e[f] = m[f]

C2_Witness ==
    /\ pc[MainCaller] = "writing"
    /\ Len(args[MainCaller].messages) = 2
    /\ "tool_calls" \in DOMAIN args[MainCaller].messages[2]

\* C3: a successful saveToolResponse(toolCallId, toolResponse) leaves the
\* history it loaded extended by exactly one message, the last one, with
\* role tool, tool_call_id = toolCallId and content = toolResponse, whatever
\* tool-call ids the history holds.
C3_ToolResponseAppended ==
    \A c \in Callers :
        (pc[c] = "done" /\ op[c] = "tool" /\ result[c].status = "ok") =>
            LET e == log[Len(log)]
                last == file.text[Len(file.text)]
            IN  /\ file.exists
                /\ e.hi = e.lo
                /\ Len(file.text) = e.base + 1
                /\ last.id = e.lo
                /\ last.role = "tool"
                /\ last.tool_call_id = args[c].toolCallId
                /\ Get(last, "content") = args[c].toolResponse

C3_Witness ==
    /\ pc[MainCaller] = "done"
    /\ op[MainCaller] = "tool"
    /\ result[MainCaller].status = "ok"
    /\ args[MainCaller].toolCallId = "call_x"
    /\ Len(file.text) = 2
    /\ "tool_calls" \in DOMAIN file.text[1]

\* C4: after a failed addMessages, getMessages returns the history of the
\* successful calls only, none of the failed call's messages.
C4_FailedAppendLeavesHistory ==
    \A c \in Callers :
        GetReturned(c) => SameMessages(result[c].value, appended)

\* C5: every request runLLM sends has tool_choice "auto" and
\* parallel_tool_calls false, and its tools are the given descriptors
\* translated one to one in input order (none for [] or no tools given).
C5_RequestPolicy ==
    \A c \in Callers :
        op[c] = "llm" =>
            \A k \in 1..Len(llm[c].requests) :
                LET r == llm[c].requests[k]
                    tools == Param(args[c], "tools", <<>>)
                IN  /\ r.tool_choice = "auto"
                    /\ r.parallel_tool_calls = FALSE
                    /\ Len(r.tools) = Len(tools)
                    /\ \A i \in 1..Len(tools) :
                           /\ r.tools[i].type = "function"
                           /\ r.tools[i].function.name = tools[i].name

C5_Witness ==
    /\ op[MainCaller] = "llm"
    /\ Len(llm[MainCaller].requests) = 1
    /\ "tools" \in DOMAIN args[MainCaller]
    /\ Len(args[MainCaller].tools) = 2
    /\ args[MainCaller].tools[1] # args[MainCaller].tools[2]

\* C6: a runLLM call sends exactly one request, whose messages are the
\* system prompt followed by the given messages unchanged; it returns the
\* first choice's message; it changes neither its messages nor the store.
C6_OneRequestSystemFirst ==
    [][\A c \in Callers :
          (op'[c] = "llm" /\ pc'[c] # pc[c]) =>
              /\ UNCHANGED <<file, defaultData>>
              /\ Len(llm'[c].requests) = 1
              /\ pc'[c] = "calling" =>
                     /\ args'[c].messages = result[c].value
                     /\ llm'[c].requests[1].messages =
                            <<[role |-> "system", content |-> systemPrompt]>>
                                \o result[c].value
              /\ pc'[c] = "done" =>
                     /\ args'[c] = args[c]
                     /\ llm'[c].requests = llm[c].requests
                     /\ result'[c].status = "ok" =>
                            result'[c].value = llm'[c].choices[1].message
      ]_vars

C6_Witness ==
    /\ pc[MainCaller] = "done"
    /\ op[MainCaller] = "llm"
    /\ result[MainCaller].status = "ok"
    /\ Len(args[MainCaller].messages) = 2
    /\ file.exists
    /\ Len(llm[MainCaller].choices) = 2
    /\ llm[MainCaller].choices[1] # llm[MainCaller].choices[2]

Distinct(stored) ==
    \A i, j \in 1..Len(stored) : i # j => stored[i].id # stored[j].id

\* C7: in every reachable state the ids of the stored messages are pairwise
\* distinct, in db.json and in every loaded copy, and all were generated
\* already (none is left to be given to a later message).
C7_IdsDistinct ==
    /\ Distinct(file.text)
    /\ Distinct(defaultData)
    /\ \A c \in Callers : Distinct(db[c].data) /\ Distinct(pending[c].text)
    /\ \A id \in IdsOf(file.text) \cup IdsOf(defaultData) : id < nextId

C7_Witness ==
    /\ Len(file.text) = 3
    /\ removeMetadata(file.text[1]) = removeMetadata(file.text[2])
    /\ removeMetadata(file.text[2]) = removeMetadata(file.text[3])
    /\ Len(log) = 2

\* C8: under serialized use every step leaves the stored sequence a prefix
\* of the new one, records unchanged, and no step of getMessages changes
\* db.json or defaultData.
C8_AppendOnly ==
    [][/\ IsPrefix(file.text, file'.text)
       /\ SamePrefix(Loaded, Loaded')
       /\ \A c \in Callers :
              op'[c] = "get" => UNCHANGED <<file, defaultData>>
      ]_vars

C8_Witness ==
    /\ GetReturned(MainCaller)
    /\ Len(log) = 2
    /\ log[1].status = "ok"
    /\ log[2].status = "failed"
    /\ Len(file.text) = 2
    /\ Len(result[MainCaller].value) = 2

\* What a caller can observe of the history: db.json, defaultData, the
\* data of a Low instance, a document handed to the writer.
Observations ==
    {file.text, defaultData}
        \cup {db[c].data : c \in Callers} \cup {pending[c].text : c \in Callers}

\* C9: every observed history holds all messages of an addMessages batch
\* or none of them.
C9_AllOrNothing ==
    \A k \in 1..Len(log) : \A o \in Observations :
        LET ids == log[k].lo .. log[k].hi
        IN  IdsOf(o) \cap ids \in {{}, ids}

C9_Witness ==
    \E c, d \in Callers :
        /\ pc[c] = "writing"
        /\ Len(args[c].messages) = 2
        /\ pc[d] = "loaded"
        /\ op[d] = "get"
        /\ db[d].ref = "own"
        /\ Len(db[d].data) = 1

\* The call of log entry k resolved and db.json lacks one of its messages.
Lost(k) ==
    /\ log[k].status = "ok"
    /\ ~(log[k].lo .. log[k].hi \subseteq IdsOf(file.text))

\* C10: as long as no two addMessages calls overlapped, every message of a
\* successful call is in db.json; with overlap (the witness) both calls can
\* succeed and db.json lack the messages of one.
C10_SerializedAppendsKept ==
    ~overlapped => \A k \in 1..Len(log) : ~Lost(k)

C10_Witness ==
    /\ overlapped
    /\ Len(log) = 3
    /\ \A c \in Callers :
           pc[c] = "done" /\ op[c] = "add" /\ result[c].status = "ok"
    /\ \A k \in 1..3 : log[k].status = "ok"
    /\ log[2].base = 1 /\ log[3].base = 1
    /\ Lost(2)
    /\ ~Lost(1) /\ ~Lost(3)

=============================================================================
